---------------------------- MODULE Spec2Model ----------------------------
(***************************************************************************)
(* A model of the book library: the page-range parser, the identifier      *)
(* registry, the book resolver, the metadata extractor, page-text          *)
(* extraction and the server tools built on them (src/pdf_tools.py,        *)
(* src/server.py).                                                         *)
(*                                                                         *)
(* Strings are sequences of one-character strings, so that split, strip,   *)
(* int(), lower(), endswith(), splitext() and the substring test are       *)
(* computed character by character, as Python computes them.               *)
(***************************************************************************)
EXTENDS Integers, Sequences, FiniteSets, TLC

VARIABLES
    page_range_str,   \* parse_page_ranges: its first argument
    max_pages,        \* parse_page_ranges: its second argument
    page_numbers,     \* parse_page_ranges: the list it returned
    parse_pc,         \* "call" before parse_page_ranges ran, "done" after
    dir_exists,       \* whether BOOKS_DIR exists
    files,            \* BOOKS_DIR: filename -> the document stored, or Absent
    _id_to_filename,  \* module global: dict, ID string -> filename
    _filename_to_id,  \* module global: dict, filename -> ID string
    _next_id,         \* module global: the next numeric ID
    ret,              \* the call just made and what it returned; Idle otherwise
    threads           \* concurrent callers: thread -> its position and locals

parse_vars == <<page_range_str, max_pages, page_numbers, parse_pc>>

fs_vars == <<dir_exists, files>>

registry_vars == <<_id_to_filename, _filename_to_id, _next_id>>

vars ==
    <<page_range_str, max_pages, page_numbers, parse_pc, dir_exists, files,
      _id_to_filename, _filename_to_id, _next_id, ret, threads>>

(***************************************************************************)
(* Bounds of the model.                                                    *)
(***************************************************************************)
\* Longest range expression enumerated over RangeAlphabet.
MaxLen == 4
\* Largest page count enumerated for the parser.
MaxPage == 3
\* Most files the directory holds at a time.
MaxFiles == 2

(***************************************************************************)
(* Python's built-ins on strings and lists.                                *)
(***************************************************************************)
Min(a, b) == IF a < b THEN a ELSE b

Max(a, b) == IF a > b THEN a ELSE b

DigitChars == {"0", "1", "2", "3", "4", "5", "6", "7", "8", "9"}

DigitValue(c) ==
    CASE c = "0" -> 0 [] c = "1" -> 1 [] c = "2" -> 2 [] c = "3" -> 3
      [] c = "4" -> 4 [] c = "5" -> 5 [] c = "6" -> 6 [] c = "7" -> 7
      [] c = "8" -> 8 [] c = "9" -> 9

\* str.strip(): leading and trailing whitespace removed.
RECURSIVE lstrip(_)
lstrip(s) ==
    IF s # <<>> /\ Head(s) = " " THEN lstrip(Tail(s)) ELSE s

RECURSIVE rstrip(_)
rstrip(s) ==
    IF s # <<>> /\ s[Len(s)] = " " THEN rstrip(SubSeq(s, 1, Len(s) - 1)) ELSE s

strip(s) == rstrip(lstrip(s))

\* c in s, for a one-character c.
char_in(c, s) == \E i \in 1..Len(s) : s[i] = c

\* s.find(c) + 1: the 1-based index of the first c in s, 0 if there is none.
RECURSIVE find_from(_, _, _)
find_from(s, c, i) ==
    IF i > Len(s) THEN 0
    ELSE IF s[i] = c THEN i
    ELSE find_from(s, c, i + 1)

\* s.split(sep): always at least one piece.
RECURSIVE split(_, _)
split(s, sep) ==
    LET k == find_from(s, sep, 1)
    IN  IF k = 0 THEN <<s>>
        ELSE <<SubSeq(s, 1, k - 1)>> \o split(SubSeq(s, k + 1, Len(s)), sep)

\* s.split(sep, 1): cut at the first sep only.
split_once(s, sep) ==
    LET k == find_from(s, sep, 1)
    IN  IF k = 0 THEN <<s>>
        ELSE <<SubSeq(s, 1, k - 1), SubSeq(s, k + 1, Len(s))>>

RECURSIVE digits_value(_, _)
digits_value(s, acc) ==
    IF s = <<>> THEN acc
    ELSE digits_value(Tail(s), 10 * acc + DigitValue(Head(s)))

\* int(s) once the sign is taken off: the rest must be one or more decimal
\* digits.  ok = FALSE stands for ValueError.
int_signed(sign, body) ==
    IF body # <<>> /\ \A i \in 1..Len(body) : body[i] \in DigitChars
    THEN [ok |-> TRUE,
          val |-> IF sign = "-" THEN 0 - digits_value(body, 0)
                  ELSE digits_value(body, 0)]
    ELSE [ok |-> FALSE, val |-> 0]

\* int(s) once the whitespace is taken off: one sign is allowed.
int_stripped(t) ==
    IF t # <<>> /\ Head(t) \in {"-", "+"}
    THEN int_signed(Head(t), Tail(t))
    ELSE int_signed("+", t)

\* int(s): surrounding whitespace is ignored.
int(s) == int_stripped(strip(s))

\* range(a, b + 1) as a list.
range_list(a, b) == [i \in 1..(b - a + 1) |-> a + i - 1]

list_set(l) == {l[i] : i \in 1..Len(l)}

\* sorted(S) for a set of integers.
RECURSIVE sorted(_)
sorted(S) ==
    IF S = {} THEN <<>>
    ELSE LET m == CHOOSE x \in S : \A y \in S : x <= y
         IN  <<m>> \o sorted(S \ {m})

(***************************************************************************)
(* parse_page_ranges (src/pdf_tools.py:345-380).                           *)
(***************************************************************************)
\* line 363
range_start_unclamped(start, max_pages_) == Min(start, max_pages_)

range_start(start, max_pages_) == Max(1, Min(start, max_pages_))

\* line 364
range_end(start, end, max_pages_) == Max(start, Min(end, max_pages_))

\* line 373
single_page_in_bounds(page, max_pages_) == 1 <= page /\ page <= max_pages_

\* lines 363-365: the pages of a range whose two numbers parsed.
pages_of_range_from(start, end, max_pages_) ==
    range_list(start, range_end(start, end, max_pages_))

\* lines 358-368: start, end = map(int, ...); ValueError skips the piece.
pages_of_range(a, b, max_pages_) ==
    IF ~a.ok \/ ~b.ok THEN <<>>
    ELSE pages_of_range_from(range_start(a.val, max_pages_), b.val, max_pages_)

\* line 358: range_str.split('-', 1); the piece holds a '-', so two parts.
pages_of_parts(parts, max_pages_) ==
    pages_of_range(int(parts[1]), int(parts[2]), max_pages_)

\* lines 370-377: a single page; ValueError skips the piece.
pages_of_single(page, max_pages_) ==
    IF page.ok /\ single_page_in_bounds(page.val, max_pages_)
    THEN <<page.val>>
    ELSE <<>>

\* lines 355-377: the pages a stripped piece adds to the list.
pages_of_stripped(r, max_pages_) ==
    IF r = <<>> THEN <<>>
    ELSE IF char_in("-", r) THEN pages_of_parts(split_once(r, "-"), max_pages_)
    ELSE pages_of_single(int(r), max_pages_)

\* lines 354-377: the pages one comma-separated piece adds to the list.
pages_of_piece(piece, max_pages_) == pages_of_stripped(strip(piece), max_pages_)

\* lines 353-377: the loop over the pieces, extending the list in order.
RECURSIVE pages_of_ranges(_, _, _)
pages_of_ranges(ranges, pages, max_pages_) ==
    IF ranges = <<>> THEN pages
    ELSE pages_of_ranges(Tail(ranges),
                         pages \o pages_of_piece(Head(ranges), max_pages_),
                         max_pages_)

parse_page_ranges(page_range_str_, max_pages_) ==
    IF page_range_str_ = <<>> THEN <<>>
    ELSE sorted(list_set(pages_of_ranges(split(page_range_str_, ","), <<>>, max_pages_)))

(***************************************************************************)
(* More of Python's string built-ins, for filenames and titles.            *)
(***************************************************************************)
UpperCase ==
    <<"A", "B", "C", "D", "E", "F", "G", "H", "I", "J", "K", "L", "M",
      "N", "O", "P", "Q", "R", "S", "T", "U", "V", "W", "X", "Y", "Z">>

LowerCase ==
    <<"a", "b", "c", "d", "e", "f", "g", "h", "i", "j", "k", "l", "m",
      "n", "o", "p", "q", "r", "s", "t", "u", "v", "w", "x", "y", "z">>

is_upper_char(c) == \E i \in 1..Len(UpperCase) : UpperCase[i] = c

is_lower_char(c) == \E i \in 1..Len(LowerCase) : LowerCase[i] = c

\* ord(c) for the characters that occur in filenames.
Ord(c) ==
    CASE c = " " -> 32
      [] c = "." -> 46
      [] c \in DigitChars -> 48 + DigitValue(c)
      [] is_upper_char(c) -> 64 + (CHOOSE i \in 1..Len(UpperCase) : UpperCase[i] = c)
      [] is_lower_char(c) -> 96 + (CHOOSE i \in 1..Len(LowerCase) : LowerCase[i] = c)

\* c.lower()
lower_char(c) ==
    IF is_upper_char(c)
    THEN LowerCase[CHOOSE i \in 1..Len(UpperCase) : UpperCase[i] = c]
    ELSE c

\* s.lower()
lower(s) == [i \in 1..Len(s) |-> lower_char(s[i])]

\* s.endswith(suffix)
endswith(s, suffix) ==
    /\ Len(suffix) <= Len(s)
    /\ SubSeq(s, Len(s) - Len(suffix) + 1, Len(s)) = suffix

\* needle in haystack, for strings.
str_in(needle, haystack) ==
    \E i \in 0..(Len(haystack) - Len(needle)) :
        SubSeq(haystack, i + 1, i + Len(needle)) = needle

\* s < t for strings: by code point, a proper prefix first.
RECURSIVE str_lt(_, _)
str_lt(s, t) ==
    IF t = <<>> THEN FALSE
    ELSE IF s = <<>> THEN TRUE
    ELSE IF Ord(Head(s)) # Ord(Head(t)) THEN Ord(Head(s)) < Ord(Head(t))
    ELSE str_lt(Tail(s), Tail(t))

\* sorted(S) for a set of strings.
RECURSIVE sorted_strs(_)
sorted_strs(S) ==
    IF S = {} THEN <<>>
    ELSE LET m == CHOOSE x \in S : \A y \in S \ {x} : str_lt(x, y)
         IN  <<m>> \o sorted_strs(S \ {m})

\* s.rfind(c) + 1: the 1-based index of the last c in s, 0 if there is none.
RECURSIVE rfind_from(_, _, _)
rfind_from(s, c, i) ==
    IF i = 0 THEN 0
    ELSE IF s[i] = c THEN i
    ELSE rfind_from(s, c, i - 1)

\* os.path.splitext(name)[0] for a name without directory separators: cut at
\* the last dot, unless only dots precede it.
splitext_root(name) ==
    LET dot == rfind_from(name, ".", Len(name))
    IN  IF dot > 0 /\ \E i \in 1..(dot - 1) : name[i] # "."
        THEN SubSeq(name, 1, dot - 1)
        ELSE name

\* str(n) for n >= 0.
RECURSIVE str(_)
str(n) ==
    LET digit == CHOOSE c \in DigitChars : DigitValue(c) = n % 10
    IN  IF n < 10 THEN <<digit>> ELSE str(n \div 10) \o <<digit>>

(***************************************************************************)
(* Python dicts: a list of <<key, value>> pairs in insertion order.        *)
(***************************************************************************)
dict_has(d, k) == \E i \in 1..Len(d) : d[i][1] = k

dict_get(d, k) == d[CHOOSE i \in 1..Len(d) : d[i][1] = k][2]

\* d[k] = v: a new key goes last, a known key keeps its place.
dict_set(d, k, v) ==
    IF dict_has(d, k)
    THEN [i \in 1..Len(d) |-> IF d[i][1] = k THEN <<k, v>> ELSE d[i]]
    ELSE Append(d, <<k, v>>)

dict_keys(d) == {d[i][1] : i \in 1..Len(d)}

(***************************************************************************)
(* The books directory and the documents in it.  A document is what pypdf  *)
(* finds in the file: where reading it raises, its pages, its metadata.    *)
(***************************************************************************)
\* line 9: the absolute path of the books directory.
BOOKS_DIR == "/abs/module/dir/books"

\* os.path.join(BOOKS_DIR, filename)
path_join(dir, filename) == <<dir, "/">> \o filename

Name_dot_pdf == <<".", "p", "d", "f">>

Name_B_PDF == <<"B", ".", "P", "D", "F">>

Name_C_txt == <<"C", ".", "t", "x", "t">>

Name_a_pdf == <<"a", ".", "p", "d", "f">>

Filenames == {Name_dot_pdf, Name_B_PDF, Name_C_txt, Name_a_pdf}

Absent == [absent |-> TRUE]

\* A two-page document titled "A1" with an author and an outline: a
\* chapter on page 1 with one section below it (given as a nested list and
\* again as its /First child), and an object whose page cannot be told.
\* Page 2 holds an upper-case line.
Doc_A1 ==
    [fail_at |-> "none", npages |-> 2, title |-> <<"A", "1">>,
     author |-> <<"A", "l">>, bad_page |-> 0, size |-> 700,
     text |-> << <<"a", "b">>, <<"A", "B">> >>,
     outline |->
        << [kind |-> "dict", has_title |-> TRUE, title |-> <<"One">>,
            dest |-> "ref", page |-> 1, count |-> 1, broken |-> FALSE,
            chain |-> << [kind |-> "dict", has_title |-> FALSE, title |-> <<>>,
                          dest |-> "raises", page |-> 0, count |-> 0,
                          broken |-> FALSE, chain |-> <<>>] >>],
           [kind |-> "list",
            items |-> << [kind |-> "other", title |-> <<"Two">>, dest |-> "page",
                          page |-> 1, broken |-> FALSE, children |-> <<>>] >>],
           [kind |-> "other", title |-> <<"Lost">>, dest |-> "none", page |-> 0,
            broken |-> TRUE, children |-> <<>>] >>]

\* A three-page document without title, author or outline; page 1 holds a
\* chapter heading and an upper-case line, page 3 does not extract.
Doc_untitled ==
    [fail_at |-> "none", npages |-> 3, title |-> <<>>, author |-> <<>>,
     bad_page |-> 3, size |-> 900,
     text |-> << <<" ", "C", "h", "a", "p", "t", "e", "r", " ", "1", "\n",
                   "a", "b", "\n", "A", "B", " ", "1">>,
                 <<>>, <<"a">> >>,
     outline |-> <<>>]

\* A document without pages or outline whose title is the name of another file.
Doc_named_a_pdf ==
    [fail_at |-> "none", npages |-> 0, title |-> Name_a_pdf, author |-> <<>>,
     bad_page |-> 0, size |-> 300, text |-> <<>>, outline |-> <<>>]

\* Not a PDF: PdfReader(path) raises.
Doc_corrupt ==
    [fail_at |-> "open", npages |-> 0, title |-> <<>>, author |-> <<>>,
     bad_page |-> 0, size |-> 5, text |-> <<>>, outline |-> <<>>]

\* The pages load, reading the document information raises; walking the
\* outline raises; the second line of page 1 is an upper-case heading.
Doc_bad_metadata ==
    [fail_at |-> "metadata", npages |-> 2, title |-> <<"A", "1">>,
     author |-> <<>>, bad_page |-> 0, size |-> 800,
     text |-> << <<"a", "b", "\n", "A", "B", " ", "1">>, <<>> >>,
     outline |->
        << [kind |-> "dict", has_title |-> TRUE, title |-> <<"Bad">>,
            dest |-> "none", page |-> 0, count |-> 0, broken |-> TRUE,
            chain |-> <<>>] >>]

Documents == {Doc_A1, Doc_untitled, Doc_named_a_pdf, Doc_corrupt, Doc_bad_metadata}

\* What a file of the given name can hold: only a .pdf name holds a PDF.
DocumentsFor(filename) ==
    IF endswith(lower(filename), <<".", "p", "d", "f">>) THEN Documents ELSE {Doc_corrupt}

\* str(e) of the exception pypdf raises at the given point.
exception_text(where) == <<"pypdf error at", where>>

\* os.listdir(BOOKS_DIR)
listdir(files_) == {f \in Filenames : files_[f] # Absent}

(***************************************************************************)
(* _load_book_mappings (src/pdf_tools.py:18-37).                           *)
(***************************************************************************)
EmptyMappings == [id_to_filename |-> <<>>, filename_to_id |-> <<>>, next_id |-> 1]

\* line 34
is_pdf_name_case_sensitive(filename) == endswith(filename, <<".", "p", "d", "f">>)

is_pdf_name(filename) == endswith(lower(filename), <<".", "p", "d", "f">>)

\* lines 34-37: one pass of the loop body.
add_mapping(m, filename) ==
    IF is_pdf_name(filename)
    THEN [id_to_filename |-> dict_set(m.id_to_filename, str(m.next_id), filename),
          filename_to_id |-> dict_set(m.filename_to_id, filename, str(m.next_id)),
          next_id |-> m.next_id + 1]
    ELSE m

\* lines 33-37: the loop over the sorted listing.
RECURSIVE add_mappings(_, _)
add_mappings(m, names) ==
    IF names = <<>> THEN m
    ELSE add_mappings(add_mapping(m, Head(names)), Tail(names))

\* line 33
listing_unsorted(files_) ==
    LET S == listdir(files_)
    IN  IF S = {} THEN <<>>
        ELSE LET l == sorted_strs(S) IN <<l[Len(l)]>> \o SubSeq(l, 1, Len(l) - 1)

listing(files_) == sorted_strs(listdir(files_))

\* The mappings after the call (a missing directory is created and holds
\* nothing: lines 28-30).
_load_book_mappings(dir_exists_, files_) ==
    IF ~dir_exists_
    THEN EmptyMappings
    ELSE add_mappings(EmptyMappings, listing(files_))

(***************************************************************************)
(* Book records: Python dicts with string keys, as records.                *)
(***************************************************************************)
None == [none |-> TRUE]

\* d[key] = value
set_item(d, key, value) == (key :> value) @@ d

\* del d[key]
del_item(d, key) == [k \in (DOMAIN d) \ {key} |-> d[k]]

has_key(d, key) == key \in DOMAIN d

\* Whether reading the document raises at or before the given step.
raises_by(doc, steps) == doc.fail_at \in steps

(***************************************************************************)
(* get_all_books (src/pdf_tools.py:39-87).                                 *)
(***************************************************************************)
\* line 82 (and 75): the title of a document without a readable one.
fallback_title(filename) == splitext_root(filename)

\* lines 66-83: the try block and its handler.
list_metadata(book_info, doc, filename) ==
    IF raises_by(doc, {"open", "pages"})
    THEN set_item(set_item(book_info, "title", fallback_title(filename)),
                  "error", exception_text(doc.fail_at))
    ELSE LET with_pages == set_item(book_info, "pages", doc.npages)
         IN  IF raises_by(doc, {"metadata"})
             THEN set_item(set_item(with_pages, "title", fallback_title(filename)),
                           "error", exception_text(doc.fail_at))
             ELSE LET with_title ==
                          set_item(with_pages, "title",
                                   IF doc.title # <<>> THEN doc.title
                                   ELSE fallback_title(filename))
                  IN  IF raises_by(doc, {"author"})
                      THEN set_item(set_item(with_title, "title", fallback_title(filename)),
                                    "error", exception_text(doc.fail_at))
                      ELSE IF doc.author # <<>>
                      THEN set_item(with_title, "author", doc.author)
                      ELSE with_title

\* lines 57-85: the record of one registry entry.
list_book(book_id, filename, files_) ==
    list_metadata([id |-> book_id, filename |-> filename,
                   path |-> path_join(BOOKS_DIR, filename),
                   size |-> files_[filename].size],
                  files_[filename], filename)

\* lines 56-85: one record per registry entry, in the dict's order.
books_of_mappings(m, files_) ==
    [i \in 1..Len(m.id_to_filename) |->
        list_book(m.id_to_filename[i][1], m.id_to_filename[i][2], files_)]

\* lines 56-87: the list built from the mappings just loaded.
books_loaded(m, files_) == [mappings |-> m, result |-> books_of_mappings(m, files_)]

\* The mappings the call leaves and the list it returns.
get_all_books(dir_exists_, files_) ==
    books_loaded(_load_book_mappings(dir_exists_, files_), files_)

(***************************************************************************)
(* get_book_by_id (src/pdf_tools.py:89-143).                               *)
(***************************************************************************)
\* lines 128-141: the try block and its handler.
lookup_metadata(book_info, doc, filename) ==
    IF raises_by(doc, {"open", "pages"})
    THEN set_item(set_item(book_info, "title", splitext_root(filename)),
                  "error", exception_text(doc.fail_at))
    ELSE LET with_pages == set_item(book_info, "pages", doc.npages)
         IN  IF raises_by(doc, {"metadata"})
             THEN set_item(set_item(with_pages, "title", splitext_root(filename)),
                           "error", exception_text(doc.fail_at))
             ELSE LET with_title ==
                          set_item(with_pages, "title",
                                   IF doc.title # <<>> THEN doc.title
                                   ELSE splitext_root(filename))
                  IN  IF raises_by(doc, {"author"})
                      THEN set_item(set_item(with_title, "title", splitext_root(filename)),
                                    "error", exception_text(doc.fail_at))
                      ELSE IF doc.author # <<>>
                      THEN set_item(with_title, "author", doc.author)
                      ELSE with_title

\* lines 116-143: the record of a filename found in the registry.
lookup_book(m, filename, files_) ==
    IF files_[filename] = Absent THEN None
    ELSE lookup_metadata(
             [id |-> IF dict_has(m.filename_to_id, filename)
                     THEN dict_get(m.filename_to_id, filename)
                     ELSE <<"u", "n", "k", "n", "o", "w", "n">>,
              filename |-> filename,
              path |-> path_join(BOOKS_DIR, filename),
              size |-> files_[filename].size],
             files_[filename], filename)

\* line 112
title_matches_case_sensitive(book_id, book) == str_in(book_id, book.title)

title_matches(book_id, book) ==
    str_in(lower(book_id), lower(IF has_key(book, "title") THEN book.title ELSE <<>>))

\* lines 111-114: the first book whose title matches, None without one.
RECURSIVE first_title_match(_, _)
first_title_match(book_id, all_books) ==
    IF all_books = <<>> THEN None
    ELSE IF title_matches(book_id, Head(all_books)) THEN Head(all_books)
    ELSE first_title_match(book_id, Tail(all_books))

\* lines 103-114, looking in the titles first.
resolve_title_first(book_id, m, files_) ==
    LET by_title == first_title_match(book_id, books_of_mappings(m, files_))
    IN  IF by_title # None THEN by_title
        ELSE IF dict_has(m.id_to_filename, book_id)
        THEN lookup_book(m, dict_get(m.id_to_filename, book_id), files_)
        ELSE IF dict_has(m.filename_to_id, book_id)
        THEN lookup_book(m, book_id, files_)
        ELSE None

\* lines 103-143: the three tiers, on the mappings just loaded.
resolve(book_id, m, files_) ==
    IF dict_has(m.id_to_filename, book_id)
    THEN lookup_book(m, dict_get(m.id_to_filename, book_id), files_)
    ELSE IF dict_has(m.filename_to_id, book_id)
    THEN lookup_book(m, book_id, files_)
    ELSE first_title_match(book_id, get_all_books(TRUE, files_).result)

\* lines 103-143, on the mappings line 100 loaded.
book_resolved(book_id, m, files_) ==
    [mappings |-> m, result |-> resolve(book_id, m, files_)]

\* The mappings the call leaves and the record (or None) it returns.
get_book_by_id(book_id, dir_exists_, files_) ==
    book_resolved(book_id, _load_book_mappings(dir_exists_, files_), files_)

(***************************************************************************)
(* extract_pages_text (src/pdf_tools.py:300-342).                          *)
(***************************************************************************)
\* f"...{x}": the fixed text and the value formatted into it.
fmt(text, value) == <<text>> \o value

\* lines 329-337: the loop over the page numbers; it stops at the first page
\* that is not in the document (IndexError) or whose text cannot be
\* extracted, and keeps what it appended before.
RECURSIVE extract_loop(_, _, _)
extract_loop(doc, page_nums, pages) ==
    IF page_nums = <<>> THEN [raised |-> FALSE, pages |-> pages]
    ELSE LET page_num == Head(page_nums)
         IN  IF page_num - 1 >= doc.npages
             THEN [raised |-> TRUE, pages |-> pages, error |-> exception_text("index")]
             ELSE IF page_num = doc.bad_page
             THEN [raised |-> TRUE, pages |-> pages,
                   error |-> exception_text("extract_text")]
             ELSE extract_loop(doc, Tail(page_nums),
                               Append(pages, [page_number |-> page_num,
                                              text |-> doc.text[page_num]]))

\* lines 329-340: what the loop leaves in the result.
extract_run(result, run) ==
    IF run.raised
    THEN set_item(set_item(result, "pages", run.pages), "error",
                  fmt("Error extracting pages: ", run.error))
    ELSE set_item(result, "pages", run.pages)

\* lines 329-337, going on after a page that fails.
extract_nums_skipping_failures(result, doc, page_nums, page_range_str_) ==
    LET good == SelectSeq(page_nums, LAMBDA p : p <= doc.npages /\ p # doc.bad_page)
    IN  set_item(result, "pages",
                 [i \in 1..Len(good) |->
                     [page_number |-> good[i], text |-> doc.text[good[i]]]])

\* lines 323-337: no page numbers is an error, else the loop runs.
extract_nums(result, doc, page_nums, page_range_str_) ==
    IF page_nums = <<>>
    THEN set_item(result, "error",
                  fmt("No valid pages specified in range: ", page_range_str_))
    ELSE extract_run(result, extract_loop(doc, page_nums, <<>>))

\* lines 317-340: the try block and its handler.
extract_body(result, doc, page_range_str_) ==
    IF raises_by(doc, {"open", "pages"})
    THEN set_item(result, "error",
                  fmt("Error extracting pages: ", exception_text(doc.fail_at)))
    ELSE extract_nums(result, doc, parse_page_ranges(page_range_str_, doc.npages),
                      page_range_str_)

\* lines 309-310
not_found_result_silent(result, book_id) == result

not_found_result(result, book_id) ==
    set_item(result, "error", fmt("Book not found: ", book_id))

\* lines 312-315: the result names the book found.
result_of_book(book) ==
    [book_id |-> book.id, pages |-> <<>>,
     book_title |-> IF has_key(book, "title") THEN book.title ELSE <<>>]

\* lines 308-342, with the book get_book_by_id gave.
extract_found(found, book_id, page_range_str_, files_) ==
    [mappings |-> found.mappings,
     result |->
        IF found.result = None
        THEN not_found_result([book_id |-> book_id, pages |-> <<>>], book_id)
        ELSE extract_body(result_of_book(found.result),
                          files_[found.result.filename], page_range_str_)]

\* The mappings the call leaves and the dict it returns.
extract_pages_text(book_id, page_range_str_, dir_exists_, files_) ==
    extract_found(get_book_by_id(book_id, dir_exists_, files_), book_id,
                  page_range_str_, files_)

(***************************************************************************)
(* get_book_info (src/pdf_tools.py:382-411).                               *)
(***************************************************************************)
\* lines 389-409: the try block and its handler.  pypdf reads the title and
\* the author of the document information; the other keys (creator,
\* producer, subject, the two dates) are not present in these documents.
info_body(book, doc) ==
    IF raises_by(doc, {"open", "metadata"})
    THEN set_item(book, "error",
                  fmt("Error reading PDF metadata: ", exception_text(doc.fail_at)))
    ELSE LET with_author ==
                 IF doc.author # <<>> /\ doc.fail_at # "author"
                 THEN set_item(book, "author", doc.author) ELSE book
             with_title ==
                 IF doc.title # <<>> THEN set_item(with_author, "title", doc.title)
                 ELSE with_author
         IN  IF raises_by(doc, {"author", "pages"})
             THEN set_item(IF doc.fail_at = "pages" THEN with_title ELSE book, "error",
                           fmt("Error reading PDF metadata: ", exception_text(doc.fail_at)))
             ELSE set_item(with_title, "page_count", doc.npages)

\* lines 384-411, with the book get_book_by_id gave.
info_found(found, book_id, files_) ==
    [mappings |-> found.mappings,
     result |->
        IF found.result = None
        THEN [error |-> fmt("Book not found: ", book_id)]
        ELSE info_body(found.result, files_[found.result.filename])]

\* The mappings the call leaves and the dict it returns.
get_book_info(book_id, dir_exists_, files_) ==
    info_found(get_book_by_id(book_id, dir_exists_, files_), book_id, files_)

(***************************************************************************)
(* extract_table_of_contents (src/pdf_tools.py:147-298).                   *)
(*                                                                         *)
(* An outline item is one of                                               *)
(*   [kind |-> "list", items]            a nested list of items;           *)
(*   [kind |-> "dict", has_title, title, dest, page, count, chain, broken]  *)
(*       a dictionary-like item: dest is "none" (no /Dest), "raises"       *)
(*       (reading it raises) or "ref", and then page is the 1-based number *)
(*       of the page the reference matches, 0 if it matches none; chain is *)
(*       the /First, /Next, ... list of its children; broken: comparing    *)
(*       its /Count raises;                                                *)
(*   [kind |-> "other", title, dest, page, children, broken]               *)
(*       any other object: dest is "raises", "none" or "page", and then    *)
(*       page is the 0-based number get_destination_page_number returns;   *)
(*       broken: reading its title raises.                                 *)
(***************************************************************************)
\* lines 185-188 and 191-204: the entry of a dictionary-like item.
dict_entry(item, level, npages) ==
    LET entry == [title |-> IF item.has_title THEN item.title ELSE <<"Unnamed Section">>,
                  level |-> level]
    IN  IF item.dest = "ref" /\ item.page >= 1 /\ item.page <= npages
        THEN set_item(entry, "page", item.page)
        ELSE entry

\* lines 223-234: the entry of any other object.
other_entry(item, level) ==
    LET entry == [title |-> item.title, level |-> level]
    IN  IF item.dest = "page"
        THEN set_item(entry, "page", item.page + 1)
        ELSE entry

\* lines 174-245.  raised: an exception left the function.
RECURSIVE process_outline_item(_, _, _)
RECURSIVE process_outline_items(_, _, _, _)
process_outline_item(item, level, npages) ==
    IF item.kind = "list"
    THEN process_outline_items(item.items, level, <<>>, npages)
    ELSE IF item.kind = "dict"
    THEN IF item.broken
         THEN [raised |-> TRUE, entries |-> <<>>]
         ELSE LET children ==
                      IF item.count > 0 /\ item.chain # <<>>
                      THEN process_outline_items(item.chain, level + 1, <<>>, npages)
                      ELSE [raised |-> FALSE, entries |-> <<>>]
              IN  [raised |-> children.raised,
                   entries |-> <<dict_entry(item, level, npages)>> \o children.entries]
    ELSE IF item.broken
         THEN [raised |-> FALSE, entries |-> <<>>]
         ELSE LET children == process_outline_items(item.children, level + 1, <<>>, npages)
              IN  IF children.raised
                  THEN [raised |-> FALSE, entries |-> <<>>]
                  ELSE [raised |-> FALSE,
                        entries |-> <<other_entry(item, level)>> \o children.entries]

\* The loops of lines 178-179, 210-215 and 239-240: the items in order.
process_outline_items(items, level, acc, npages) ==
    IF items = <<>> THEN [raised |-> FALSE, entries |-> acc]
    ELSE LET first == process_outline_item(Head(items), level, npages)
         IN  IF first.raised THEN [raised |-> TRUE, entries |-> acc]
             ELSE process_outline_items(Tail(items), level, acc \o first.entries, npages)

\* lines 159-170: the outline the reader gives.  reader.outline is read
\* first; when it is empty, hasattr(reader, 'outlines') is evaluated, which
\* in a pypdf that removed the attribute is False and in a pypdf that
\* deprecated it raises.
read_outline(doc, outlines_attr) ==
    IF doc.outline # <<>> THEN [raised |-> FALSE, outline |-> doc.outline]
    ELSE IF outlines_attr = "raises"
    THEN [raised |-> TRUE, outline |-> <<>>, error |-> exception_text("outlines")]
    ELSE [raised |-> FALSE, outline |-> <<>>]

\* s.isupper(): a cased character, and no lower-case one.
isupper(s) ==
    /\ \E i \in 1..Len(s) : is_upper_char(s[i])
    /\ \A i \in 1..Len(s) : ~is_lower_char(s[i])

\* s.startswith(prefix)
startswith(s, prefix) == Len(prefix) <= Len(s) /\ SubSeq(s, 1, Len(prefix)) = prefix

\* line 260
ScanLimit == 20

\* line 272
ShortLine == 50

\* lines 270-272
is_heading(line) ==
    \/ startswith(lower(line), <<"c", "h", "a", "p", "t", "e", "r">>)
    \/ startswith(lower(line), <<"s", "e", "c", "t", "i", "o", "n">>)
    \/ (Len(line) < ShortLine /\ isupper(line))

\* lines 266-277: the headings of one page, in line order.
page_headings(text, page) ==
    IF text = <<>> THEN <<>>
    ELSE LET lines == split(text, "\n")
             stripped == [i \in 1..Len(lines) |-> strip(lines[i])]
             heads == SelectSeq(stripped, is_heading)
         IN  [i \in 1..Len(heads) |-> [title |-> heads[i], page |-> page, level |-> 0]]

\* lines 262-277: the scan of the first pages.
RECURSIVE scan_pages(_, _, _, _)
scan_pages(doc, i, n, chapter_toc) ==
    IF i > n THEN [raised |-> FALSE, entries |-> chapter_toc]
    ELSE IF i = doc.bad_page THEN [raised |-> TRUE, entries |-> chapter_toc]
    ELSE scan_pages(doc, i + 1, n, chapter_toc \o page_headings(doc.text[i], i))

\* line 286
LongDocument == 10

\* line 287
MinInterval == 10

\* line 287
IntervalDivisor == 5

\* lines 283-293
RECURSIVE section_markers(_, _, _)
section_markers(i, npages, page_interval) ==
    IF i >= npages THEN <<>>
    ELSE <<[title |-> fmt("Section starting at page ", str(i + 1)),
            page |-> i + 1, level |-> 0]>>
         \o section_markers(i + page_interval, npages, page_interval)

synthetic_toc(npages) ==
    <<[title |-> <<"Document Start">>, page |-> 1, level |-> 0]>>
    \o (IF npages > LongDocument
        THEN LET page_interval == Max(MinInterval, npages \div IntervalDivisor)
             IN  section_markers(page_interval, npages, page_interval)
        ELSE <<>>)

\* lines 254-293, with a page that does not extract ending the scan without
\* an error.
fallback_toc_scan_failure_ignored(doc) ==
    LET scan == scan_pages(doc, 1, Min(ScanLimit, doc.npages), <<>>)
    IN  IF scan.entries # <<>> THEN scan.entries ELSE synthetic_toc(doc.npages)

\* lines 254-293: the heuristic scan and the synthetic fallback.
fallback_toc(doc) ==
    LET scan == scan_pages(doc, 1, Min(ScanLimit, doc.npages), <<>>)
    IN  IF scan.raised THEN <<[error |-> exception_text("extract_text")]>>
        ELSE IF scan.entries # <<>> THEN scan.entries
        ELSE synthetic_toc(doc.npages)

\* lines 254-293, with the scan run whatever the outline gave.
toc_always_scanned(toc, doc) == fallback_toc(doc)

\* lines 249-293: an empty list or a lone error entry gives way to the
\* heuristic scan; len(reader.pages) is read first.
toc_or_fallback(toc, doc) ==
    IF toc = <<>> \/ (Len(toc) = 1 /\ has_key(toc[1], "error"))
    THEN IF raises_by(doc, {"pages"})
         THEN <<[error |-> exception_text(doc.fail_at)]>>
         ELSE fallback_toc(doc)
    ELSE toc

\* lines 174-247: the handler around process_outline_item.
toc_of_walk(walked) ==
    IF walked.raised
    THEN <<[error |-> fmt("Error processing outline: ", exception_text("outline"))]>>
    ELSE walked.entries

\* lines 159-247: the outline read, then walked.
toc_of_outline(read, doc, npages) ==
    IF read.raised THEN <<[error |-> read.error]>>
    ELSE toc_or_fallback(
             toc_of_walk(IF read.outline # <<>>
                         THEN process_outline_item(
                                  [kind |-> "list", items |-> read.outline], 0, npages)
                         ELSE [raised |-> FALSE, entries |-> <<>>]),
             doc)

\* lines 153-296: the try block and its handler.
derive_toc(doc, outlines_attr) ==
    IF raises_by(doc, {"open"})
    THEN <<[error |-> exception_text(doc.fail_at)]>>
    ELSE toc_of_outline(read_outline(doc, outlines_attr), doc,
                        IF raises_by(doc, {"pages"}) THEN 0 ELSE doc.npages)

\* lines 149-298, with the book get_book_by_id gave.
toc_found(found, files_, outlines_attr) ==
    [mappings |-> found.mappings,
     result |-> IF found.result = None THEN <<>>
                ELSE derive_toc(files_[found.result.filename], outlines_attr)]

\* The mappings the call leaves and the list it returns.
extract_table_of_contents(book_id, dir_exists_, files_, outlines_attr) ==
    toc_found(get_book_by_id(book_id, dir_exists_, files_), files_, outlines_attr)

(***************************************************************************)
(* The server's tools and resources (src/server.py).  Each takes the       *)
(* module globals as they are (now) and gives them as the call leaves      *)
(* them, with the value returned to the caller.                            *)
(***************************************************************************)
\* lines 33-35, 131-132, 144-146, 154-155
without_path(book) == IF has_key(book, "path") THEN del_item(book, "path") ELSE book

\* What a tool that returns before calling pdf_tools leaves and returns.
early_return(now_, result) ==
    [mappings |-> now_.mappings, dir_exists |-> now_.dir_exists, result |-> result]

\* What a tool leaves and returns once pdf_tools was called: the mappings as
\* the last call loaded them, and the directory, which that call created if
\* it was missing.
late_return(mappings, result) ==
    [mappings |-> mappings, dir_exists |-> TRUE, result |-> result]

\* lines 32-37
books_without_path(got) ==
    late_return(got.mappings, [i \in 1..Len(got.result) |-> without_path(got.result[i])])

\* lines 20-40
list_books(now_, files_) == books_without_path(get_all_books(now_.dir_exists, files_))

\* lines 139-147
books_list_resource(now_, files_) ==
    books_without_path(get_all_books(now_.dir_exists, files_))

\* lines 199-205
toc_reply(book, derived) ==
    late_return(derived.mappings,
                [book_id |-> book.id, book_title |-> book.title,
                 filename |-> book.filename, toc |-> derived.result])

\* lines 195-205
toc_of_found(found, book_id, files_, outlines_attr) ==
    IF found.result = None
    THEN late_return(found.mappings, [error |-> fmt("Book not found: ", book_id)])
    ELSE toc_reply(found.result,
                   extract_table_of_contents(book_id, TRUE, files_, outlines_attr))

\* lines 176-208: the definition that rebinds the name get_table_of_contents.
get_table_of_contents(book_id, now_, files_, outlines_attr) ==
    IF book_id = <<>>
    THEN early_return(now_, [error |-> <<"Book ID is required">>])
    ELSE toc_of_found(get_book_by_id(book_id, now_.dir_exists, files_), book_id,
                      files_, outlines_attr)

\* lines 65-70
toc_reply_first(book, book_id, derived) ==
    late_return(derived.mappings,
                [book_id |-> book_id, book_title |-> book.title, toc |-> derived.result])

\* lines 61-70
toc_of_found_first(found, book_id, files_, outlines_attr) ==
    IF found.result = None
    THEN late_return(found.mappings, <<[error |-> fmt("Book not found: ", book_id)]>>)
    ELSE toc_reply_first(found.result, book_id,
                         extract_table_of_contents(book_id, TRUE, files_, outlines_attr))

\* lines 42-73: the first definition of get_table_of_contents.
get_table_of_contents_first(book_id, now_, files_, outlines_attr) ==
    IF book_id = <<>>
    THEN early_return(now_, <<[error |-> <<"Book ID is required">>]>>)
    ELSE toc_of_found_first(get_book_by_id(book_id, now_.dir_exists, files_), book_id,
                            files_, outlines_attr)

\* lines 236-243
pages_reply(book, extracted) ==
    late_return(extracted.mappings,
                set_item(set_item(set_item(extracted.result,
                    "book_id", book.id),
                    "book_title", book.title),
                    "filename", book.filename))

\* lines 232-243
pages_of_found(found, book_id, pages, files_) ==
    IF found.result = None
    THEN late_return(found.mappings, [error |-> fmt("Book not found: ", book_id)])
    ELSE pages_reply(found.result, extract_pages_text(book_id, pages, TRUE, files_))

\* lines 210-246: the definition that rebinds the name extract_pages.
extract_pages(book_id, pages, now_, files_) ==
    IF book_id = <<>>
    THEN early_return(now_, [error |-> <<"Book ID is required">>])
    ELSE IF pages = <<>>
    THEN early_return(now_, [error |-> <<"Page specification is required">>])
    ELSE pages_of_found(get_book_by_id(book_id, now_.dir_exists, files_), book_id,
                        pages, files_)

\* lines 100-104
pages_reply_first(book, extracted) ==
    late_return(extracted.mappings,
                set_item(extracted.result, "book_title", book.title))

\* lines 96-104
pages_of_found_first(found, book_id, pages, files_) ==
    IF found.result = None
    THEN late_return(found.mappings, [error |-> fmt("Book not found: ", book_id)])
    ELSE pages_reply_first(found.result, extract_pages_text(book_id, pages, TRUE, files_))

\* lines 75-108: the first definition of extract_pages.
extract_pages_first(book_id, pages, now_, files_) ==
    IF book_id = <<>>
    THEN early_return(now_, [error |-> <<"Book ID is required">>])
    ELSE IF pages = <<>>
    THEN early_return(now_, [error |-> <<"Page specification is required">>])
    ELSE pages_of_found_first(get_book_by_id(book_id, now_.dir_exists, files_),
                              book_id, pages, files_)

\* lines 131-135 and 153-155
info_without_path(got) == late_return(got.mappings, without_path(got.result))

\* lines 110-137
tool_get_book_info(book_id, now_, files_) ==
    IF book_id = <<>>
    THEN early_return(now_, [error |-> <<"Book ID is required">>])
    ELSE info_without_path(get_book_info(book_id, now_.dir_exists, files_))

\* lines 149-156
book_info_resource(book_id, now_, files_) ==
    info_without_path(get_book_info(book_id, now_.dir_exists, files_))

\* lines 165-169
ping_reply(got) ==
    late_return(got.mappings,
                [status |-> <<"ok">>, books_count |-> Len(got.result),
                 books_dir |-> <<BOOKS_DIR>>])

\* lines 159-172
ping(now_, files_) == ping_reply(get_all_books(now_.dir_exists, files_))

(***************************************************************************)
(* Callers.  A caller that is not inside a call holds nothing.             *)
(***************************************************************************)
Threads == {"A", "B"}

IdleThread ==
    [pc |-> "idle", book_id |-> <<>>, after |-> "idle", pending |-> <<>>,
     filename |-> <<>>, result |-> None]

(***************************************************************************)
(* The parser's inputs: every expression of at most MaxLen characters over *)
(* RangeAlphabet with every page count up to MaxPage, and the expressions  *)
(* the documentation gives as examples.                                    *)
(***************************************************************************)
RangeAlphabet == {"0", "1", "3", "-", ",", " ", "a"}

RangeExpressions == UNION {[1..n -> RangeAlphabet] : n \in 0..MaxLen}

Example1 == <<"1", "-", "5", ",", "8", ",", "1", "0", "-", "1", "2">>

Example2 == <<"5", "0", "-", "6", "0">>

Example3 == <<"a", "b", "c", ",", "2">>

Example4 == <<>>

Example5 == <<" ", "3", " ", "-", " ", "1", ",", "2", "-", "-", "4", ",", "+", "2">>

ExampleInputs ==
    {<<Example1, 12>>, <<Example2, 10>>, <<Example3, 5>>, <<Example4, 5>>,
     <<Example5, 6>>, <<Example1, 0>>}

ParseInit ==
    /\ \/ page_range_str \in RangeExpressions /\ max_pages \in 0..MaxPage
       \/ \E e \in ExampleInputs : page_range_str = e[1] /\ max_pages = e[2]
    /\ page_numbers = <<>>
    /\ parse_pc = "call"
    /\ dir_exists = TRUE
    /\ files = [f \in Filenames |-> Absent]
    /\ _id_to_filename = <<>>
    /\ _filename_to_id = <<>>
    /\ _next_id = 1
    /\ ret = [op |-> "idle"]
    /\ threads = [t \in Threads |-> IdleThread]

ParseCall ==
    /\ parse_pc = "call"
    /\ page_numbers' = parse_page_ranges(page_range_str, max_pages)
    /\ parse_pc' = "done"
    /\ UNCHANGED <<page_range_str, max_pages, fs_vars, registry_vars, ret, threads>>

ParseNext == ParseCall

SpecParse == ParseInit /\ [][ParseNext]_vars

(***************************************************************************)
(* The library as a state machine: the directory changes between calls,    *)
(* and every call is one of pdf_tools' functions or one of the server's    *)
(* tools, run from start to end.                                           *)
(***************************************************************************)
Idle == [op |-> "idle"]

now == [mappings |-> [id_to_filename |-> _id_to_filename,
                      filename_to_id |-> _filename_to_id,
                      next_id |-> _next_id],
        dir_exists |-> dir_exists]

\* The module globals become those of m; the directory exists from then on.
SetGlobals(m) ==
    /\ _id_to_filename' = m.id_to_filename
    /\ _filename_to_id' = m.filename_to_id
    /\ _next_id' = m.next_id
    /\ dir_exists' = TRUE

\* What a server tool leaves: the globals and the directory as it says.
SetGlobalsOf(out) ==
    /\ _id_to_filename' = out.mappings.id_to_filename
    /\ _filename_to_id' = out.mappings.filename_to_id
    /\ _next_id' = out.mappings.next_id
    /\ dir_exists' = out.dir_exists

substrings(s) == {SubSeq(s, i, j) : i \in 1..(Len(s) + 1), j \in 0..Len(s)}

\* The identifiers callers pass: every substring of every title and stem,
\* IDs, filenames, other spellings of titles, and a string that matches
\* nothing.
BookIds ==
    UNION {substrings(d.title) : d \in Documents}
    \cup UNION {substrings(splitext_root(f)) : f \in Filenames}
    \cup Filenames
    \cup {<<"1">>, <<"2">>, <<"3">>, <<"a", "1">>, <<"b">>, <<"P", "D", "F">>,
          <<"z", "z">>}

\* The identifiers passed to the calls that read the document found.
ReadIds ==
    {<<>>, <<"1">>, <<"2">>, Name_a_pdf, Name_B_PDF, <<"a", "1">>, <<"C">>, <<"z", "z">>}

\* The installed pypdf, which the repository does not pin: reader.outlines is
\* "absent" (hasattr is False) or "raises" (the deprecated attribute raises).
PypdfOutlines == {"absent", "raises"}

\* The page specifications callers pass.
PageSpecs ==
    {<<>>, <<"2">>, <<"1", "-", "3">>, <<"3", ",", "1", ",", "1">>, <<"a">>}

LibInit ==
    /\ page_range_str = <<>>
    /\ max_pages = 0
    /\ page_numbers = <<>>
    /\ parse_pc = "unused"
    /\ dir_exists = TRUE
    /\ files = [f \in Filenames |-> Absent]
    /\ _id_to_filename = <<>>
    /\ _filename_to_id = <<>>
    /\ _next_id = 1
    /\ ret = Idle
    /\ threads = [t \in Threads |-> IdleThread]

\* A file is put into the directory.
AddFile ==
    /\ ret = Idle
    /\ dir_exists
    /\ Cardinality(listdir(files)) < MaxFiles
    /\ \E f \in Filenames : \E d \in DocumentsFor(f) :
          /\ files[f] = Absent
          /\ files' = [files EXCEPT ![f] = d]
    /\ UNCHANGED <<parse_vars, threads, dir_exists, registry_vars, ret>>

\* A file is removed from the directory.
RemoveFile ==
    /\ ret = Idle
    /\ \E f \in Filenames :
          /\ files[f] # Absent
          /\ files' = [files EXCEPT ![f] = Absent]
    /\ UNCHANGED <<parse_vars, threads, dir_exists, registry_vars, ret>>

\* The directory is removed with all it holds.
RemoveDir ==
    /\ ret = Idle
    /\ dir_exists
    /\ dir_exists' = FALSE
    /\ files' = [f \in Filenames |-> Absent]
    /\ UNCHANGED <<parse_vars, threads, registry_vars, ret>>

\* The value returned reaches the caller; the next call can start.
Return ==
    /\ ret # Idle
    /\ ret' = Idle
    /\ UNCHANGED <<parse_vars, threads, fs_vars, registry_vars>>

\* A function of pdf_tools returns: the globals are those it loaded, and ret
\* holds the call with its result.
Returned(got, call) ==
    /\ SetGlobals(got.mappings)
    /\ ret' = set_item(call, "result", got.result)

\* A tool or resource of the server returns.
ToolReturned(out, call) ==
    /\ SetGlobalsOf(out)
    /\ ret' = set_item(call, "result", out.result)

CallGetAllBooks ==
    /\ ret = Idle
    /\ Returned(get_all_books(dir_exists, files), [op |-> "get_all_books"])
    /\ UNCHANGED <<parse_vars, threads, files>>

CallGetBookById ==
    /\ ret = Idle
    /\ \E book_id \in BookIds :
          Returned(get_book_by_id(book_id, dir_exists, files),
                   [op |-> "get_book_by_id", book_id |-> book_id])
    /\ UNCHANGED <<parse_vars, threads, files>>

CallExtractPagesText ==
    /\ ret = Idle
    /\ \E book_id \in ReadIds : \E pages \in PageSpecs :
          Returned(extract_pages_text(book_id, pages, dir_exists, files),
                   [op |-> "extract_pages_text", book_id |-> book_id, pages |-> pages])
    /\ UNCHANGED <<parse_vars, threads, files>>

CallGetBookInfo ==
    /\ ret = Idle
    /\ \E book_id \in ReadIds :
          Returned(get_book_info(book_id, dir_exists, files),
                   [op |-> "get_book_info", book_id |-> book_id])
    /\ UNCHANGED <<parse_vars, threads, files>>

CallExtractTableOfContents ==
    /\ ret = Idle
    /\ \E book_id \in ReadIds : \E outlines_attr \in PypdfOutlines :
          Returned(extract_table_of_contents(book_id, dir_exists, files, outlines_attr),
                   [op |-> "extract_table_of_contents", book_id |-> book_id,
                    pypdf_outlines |-> outlines_attr])
    /\ UNCHANGED <<parse_vars, threads, files>>

ToolListBooks ==
    /\ ret = Idle
    /\ ToolReturned(list_books(now, files), [op |-> "list_books"])
    /\ UNCHANGED <<parse_vars, threads, files>>

ResourceBooksList ==
    /\ ret = Idle
    /\ ToolReturned(books_list_resource(now, files), [op |-> "books://list"])
    /\ UNCHANGED <<parse_vars, threads, files>>

ToolGetTableOfContents ==
    /\ ret = Idle
    /\ \E book_id \in ReadIds : \E outlines_attr \in PypdfOutlines :
          ToolReturned(get_table_of_contents(book_id, now, files, outlines_attr),
                       [op |-> "get_table_of_contents", book_id |-> book_id,
                        pypdf_outlines |-> outlines_attr])
    /\ UNCHANGED <<parse_vars, threads, files>>

ToolGetTableOfContentsFirst ==
    /\ ret = Idle
    /\ \E book_id \in ReadIds : \E outlines_attr \in PypdfOutlines :
          ToolReturned(get_table_of_contents_first(book_id, now, files, outlines_attr),
                       [op |-> "get_table_of_contents (first)", book_id |-> book_id,
                        pypdf_outlines |-> outlines_attr])
    /\ UNCHANGED <<parse_vars, threads, files>>

ToolExtractPages ==
    /\ ret = Idle
    /\ \E book_id \in ReadIds : \E pages \in PageSpecs :
          ToolReturned(extract_pages(book_id, pages, now, files),
                       [op |-> "extract_pages", book_id |-> book_id, pages |-> pages])
    /\ UNCHANGED <<parse_vars, threads, files>>

ToolExtractPagesFirst ==
    /\ ret = Idle
    /\ \E book_id \in ReadIds : \E pages \in PageSpecs :
          ToolReturned(extract_pages_first(book_id, pages, now, files),
                       [op |-> "extract_pages (first)", book_id |-> book_id,
                        pages |-> pages])
    /\ UNCHANGED <<parse_vars, threads, files>>

ToolGetBookInfo ==
    /\ ret = Idle
    /\ \E book_id \in ReadIds :
          ToolReturned(tool_get_book_info(book_id, now, files),
                       [op |-> "tool get_book_info", book_id |-> book_id])
    /\ UNCHANGED <<parse_vars, threads, files>>

ResourceBookInfo ==
    /\ ret = Idle
    /\ \E book_id \in ReadIds :
          ToolReturned(book_info_resource(book_id, now, files),
                       [op |-> "books://info", book_id |-> book_id])
    /\ UNCHANGED <<parse_vars, threads, files>>

ToolPing ==
    /\ ret = Idle
    /\ ToolReturned(ping(now, files), [op |-> "ping"])
    /\ UNCHANGED <<parse_vars, threads, files>>

Next ==
    \/ AddFile \/ RemoveFile \/ RemoveDir \/ Return
    \/ CallGetAllBooks \/ CallGetBookById \/ CallExtractPagesText
    \/ CallGetBookInfo \/ CallExtractTableOfContents
    \/ ToolListBooks \/ ResourceBooksList
    \/ ToolGetTableOfContents \/ ToolGetTableOfContentsFirst
    \/ ToolExtractPages \/ ToolExtractPagesFirst
    \/ ToolGetBookInfo \/ ResourceBookInfo \/ ToolPing

Spec == LibInit /\ [][Next]_vars

(***************************************************************************)
(* Two callers inside get_book_by_id at once (src/pdf_tools.py:89-143),    *)
(* each running _load_book_mappings (lines 18-37) statement by statement   *)
(* on the module globals.  A step is one statement; the directory does not *)
(* change while the callers run.  The loop of get_all_books over the       *)
(* registry and the metadata of one record are read in one step each.      *)
(***************************************************************************)
\* The identifiers the concurrent callers pass.
ConcIds == {<<"1">>, Name_a_pdf, <<"A">>}

\* The directories the callers find: at most MaxFiles files, every PDF the
\* same document.
ConcDirectories ==
    {d \in [Filenames -> {Absent, Doc_A1, Doc_corrupt}] :
        /\ Cardinality({f \in Filenames : d[f] # Absent}) <= MaxFiles
        /\ \A f \in Filenames :
              d[f] # Absent => d[f] = (IF is_pdf_name(f) THEN Doc_A1 ELSE Doc_corrupt)}

\* The registry is as the last refresh left it; a directory removed since
\* then held nothing.
ConcInit ==
    /\ page_range_str = <<>>
    /\ max_pages = 0
    /\ page_numbers = <<>>
    /\ parse_pc = "unused"
    /\ ret = Idle
    /\ files \in ConcDirectories
    /\ dir_exists \in BOOLEAN
    /\ ~dir_exists => listdir(files) = {}
    /\ _id_to_filename = _load_book_mappings(dir_exists, files).id_to_filename
    /\ _filename_to_id = _load_book_mappings(dir_exists, files).filename_to_id
    /\ _next_id = _load_book_mappings(dir_exists, files).next_id
    /\ threads = [t \in Threads |-> IdleThread]

\* The thread moves to another statement, with some of its locals changed.
goto(t, pc, changes) ==
    threads' = [threads EXCEPT ![t] = changes @@ [pc |-> pc] @@ threads[t]]

\* line 100: get_book_by_id(book_id) is called and calls _load_book_mappings.
ThreadCall(t) ==
    /\ threads[t].pc = "idle"
    /\ \E book_id \in ConcIds :
          goto(t, "line 23", [book_id |-> book_id, after |-> "line 103", result |-> None])
    /\ UNCHANGED <<parse_vars, fs_vars, registry_vars, ret>>

\* line 23
Line23(t) ==
    /\ threads[t].pc = "line 23"
    /\ _id_to_filename' = <<>>
    /\ goto(t, "line 24", <<>>)
    /\ UNCHANGED <<parse_vars, fs_vars, _filename_to_id, _next_id, ret>>

\* line 24
Line24(t) ==
    /\ threads[t].pc = "line 24"
    /\ _filename_to_id' = <<>>
    /\ goto(t, "line 25", <<>>)
    /\ UNCHANGED <<parse_vars, fs_vars, _id_to_filename, _next_id, ret>>

\* line 25
Line25(t) ==
    /\ threads[t].pc = "line 25"
    /\ _next_id' = 1
    /\ goto(t, "line 28", <<>>)
    /\ UNCHANGED <<parse_vars, fs_vars, _id_to_filename, _filename_to_id, ret>>

\* lines 28-30: a missing directory is created and the function returns.
Line28(t) ==
    /\ threads[t].pc = "line 28"
    /\ IF dir_exists
       THEN goto(t, "line 33", <<>>) /\ UNCHANGED dir_exists
       ELSE goto(t, threads[t].after, <<>>) /\ dir_exists' = TRUE
    /\ UNCHANGED <<parse_vars, files, registry_vars, ret>>

\* line 33: the sorted listing the loop goes over.
Line33(t) ==
    /\ threads[t].pc = "line 33"
    /\ goto(t, "line 34", [pending |-> listing(files)])
    /\ UNCHANGED <<parse_vars, fs_vars, registry_vars, ret>>

\* lines 33-34: the next filename, if any, and the test on it.
Line34(t) ==
    /\ threads[t].pc = "line 34"
    /\ IF threads[t].pending = <<>>
       THEN goto(t, threads[t].after, <<>>)
       ELSE IF is_pdf_name(Head(threads[t].pending))
       THEN goto(t, "line 35", <<>>)
       ELSE goto(t, "line 34", [pending |-> Tail(threads[t].pending)])
    /\ UNCHANGED <<parse_vars, fs_vars, registry_vars, ret>>

\* line 35
Line35(t) ==
    /\ threads[t].pc = "line 35"
    /\ _id_to_filename' =
          dict_set(_id_to_filename, str(_next_id), Head(threads[t].pending))
    /\ goto(t, "line 36", <<>>)
    /\ UNCHANGED <<parse_vars, fs_vars, _filename_to_id, _next_id, ret>>

\* line 36
Line36(t) ==
    /\ threads[t].pc = "line 36"
    /\ _filename_to_id' =
          dict_set(_filename_to_id, Head(threads[t].pending), str(_next_id))
    /\ goto(t, "line 37", <<>>)
    /\ UNCHANGED <<parse_vars, fs_vars, _id_to_filename, _next_id, ret>>

\* line 37
Line37(t) ==
    /\ threads[t].pc = "line 37"
    /\ _next_id' = _next_id + 1
    /\ goto(t, "line 34", [pending |-> Tail(threads[t].pending)])
    /\ UNCHANGED <<parse_vars, fs_vars, _id_to_filename, _filename_to_id, ret>>

\* line 103: book_id in _id_to_filename
Line103(t) ==
    /\ threads[t].pc = "line 103"
    /\ IF dict_has(_id_to_filename, threads[t].book_id)
       THEN goto(t, "line 104", <<>>)
       ELSE goto(t, "line 105", <<>>)
    /\ UNCHANGED <<parse_vars, fs_vars, registry_vars, ret>>

\* line 104: _id_to_filename[book_id]; KeyError if the key is gone by now.
Line104(t) ==
    /\ threads[t].pc = "line 104"
    /\ IF dict_has(_id_to_filename, threads[t].book_id)
       THEN goto(t, "line 116",
                 [filename |-> dict_get(_id_to_filename, threads[t].book_id)])
       ELSE goto(t, "returned", [result |-> [raised |-> "KeyError"]])
    /\ UNCHANGED <<parse_vars, fs_vars, registry_vars, ret>>

\* lines 105-107: book_id in _filename_to_id
Line105(t) ==
    /\ threads[t].pc = "line 105"
    /\ IF dict_has(_filename_to_id, threads[t].book_id)
       THEN goto(t, "line 116", [filename |-> threads[t].book_id])
       ELSE goto(t, "line 23", [after |-> "line 56"])
    /\ UNCHANGED <<parse_vars, fs_vars, registry_vars, ret>>

\* lines 56-87 of get_all_books, called at line 110 once its own
\* _load_book_mappings returned, and the loop over the titles (111-114).
Line56(t) ==
    /\ threads[t].pc = "line 56"
    /\ goto(t, "returned",
            [result |-> first_title_match(threads[t].book_id,
                                          books_of_mappings(now.mappings, files))])
    /\ UNCHANGED <<parse_vars, fs_vars, registry_vars, ret>>

\* lines 116-143: the record of the filename found.
Line116(t) ==
    /\ threads[t].pc = "line 116"
    /\ goto(t, "returned",
            [result |-> lookup_book(now.mappings, threads[t].filename, files)])
    /\ UNCHANGED <<parse_vars, fs_vars, registry_vars, ret>>

\* The caller has its result and may call again.
ThreadReturn(t) ==
    /\ threads[t].pc = "returned"
    /\ threads' = [threads EXCEPT ![t] = IdleThread]
    /\ UNCHANGED <<parse_vars, fs_vars, registry_vars, ret>>

ConcNext ==
    \E t \in Threads :
        \/ ThreadCall(t) \/ ThreadReturn(t)
        \/ Line23(t) \/ Line24(t) \/ Line25(t) \/ Line28(t) \/ Line33(t)
        \/ Line34(t) \/ Line35(t) \/ Line36(t) \/ Line37(t)
        \/ Line103(t) \/ Line104(t) \/ Line105(t) \/ Line56(t) \/ Line116(t)

SpecConc == ConcInit /\ [][ConcNext]_vars

(***************************************************************************)
(* Claims about parse_page_ranges.                                         *)
(***************************************************************************)
StrictlyAscending(l) == \A i \in 1..(Len(l) - 1) : l[i] < l[i + 1]

\* C1: for every expression and every page count max_pages >= 0 the list
\* parse_page_ranges returns is strictly ascending (so duplicate-free) and
\* every element lies in [1, max_pages]; it is empty when max_pages = 0.
C1_ParseWithinBounds ==
    parse_pc = "done" =>
        /\ StrictlyAscending(page_numbers)
        /\ \A i \in 1..Len(page_numbers) :
              1 <= page_numbers[i] /\ page_numbers[i] <= max_pages

\* The part of C1 the code keeps: ascending, duplicate-free, at least 1, and
\* within [1, max_pages] whenever the document has at least one page.
C1_ParseWithinBoundsNonEmptyDoc ==
    parse_pc = "done" =>
        /\ StrictlyAscending(page_numbers)
        /\ \A i \in 1..Len(page_numbers) : 1 <= page_numbers[i]
        /\ max_pages >= 1 =>
              \A i \in 1..Len(page_numbers) : page_numbers[i] <= max_pages

\* x clamped to [lo, hi], for lo <= hi.
ClampTo(x, lo, hi) == IF x < lo THEN lo ELSE IF x > hi THEN hi ELSE x

\* What one comma-separated token contributes, as the documentation states it.
TokenContribution(token, max_page) ==
    LET t == strip(token)
        single == int(t)
        parts == split_once(t, "-")
    IN  IF single.ok
        THEN {p \in {single.val} : 1 <= p /\ p <= max_page}
        ELSE IF Len(parts) = 2 /\ int(parts[1]).ok /\ int(parts[2]).ok
        THEN LET A == ClampTo(int(parts[1]).val, 1, max_page)
                 B == ClampTo(int(parts[2]).val, A, max_page)
             IN  {p \in A..B : TRUE}
        ELSE {}

ExpectedPages(expression, max_page) ==
    LET tokens == split(expression, ",")
    IN  UNION {TokenContribution(tokens[i], max_page) : i \in 1..Len(tokens)}

\* C2: parse_page_ranges returns exactly the sorted union of the
\* contributions of its comma-separated tokens (a single integer p gives {p}
\* if 1 <= p <= max_page; a range A-B gives [A', B'] with A' = A clamped to
\* [1, max_page] and B' = B clamped to [A', max_page]; anything else gives
\* nothing), and the four documented examples evaluate as documented.  The
\* clamping interval [1, max_page] exists for max_page >= 1.
C2_ParseIsSortedUnion ==
    parse_pc = "done" =>
        /\ max_pages >= 1 =>
              /\ StrictlyAscending(page_numbers)
              /\ list_set(page_numbers) = ExpectedPages(page_range_str, max_pages)
        /\ (page_range_str = Example1 /\ max_pages = 12) =>
              page_numbers = <<1, 2, 3, 4, 5, 8, 10, 11, 12>>
        /\ (page_range_str = Example2 /\ max_pages = 10) => page_numbers = <<10>>
        /\ (page_range_str = Example3 /\ max_pages = 5) => page_numbers = <<2>>
        /\ (page_range_str = Example4 /\ max_pages = 5) => page_numbers = <<>>

\* A reversed range and an empty piece, parsed: the end is raised to the start.
C2_Witness ==
    /\ parse_pc = "done"
    /\ page_range_str = <<"3", "-", "1", ",">>
    /\ max_pages = 3
    /\ page_numbers = <<3>>

(***************************************************************************)
(* Claims about the registry.                                              *)
(***************************************************************************)
\* A name ending in ".pdf", in any letter case.
EndsInPdf(f) ==
    /\ Len(f) >= 4
    /\ f[Len(f) - 3] = "."
    /\ f[Len(f) - 2] \in {"p", "P"}
    /\ f[Len(f) - 1] \in {"d", "D"}
    /\ f[Len(f)] \in {"f", "F"}

\* The recognized files of the directory.
Recognized == {f \in Filenames : files[f] # Absent /\ EndsInPdf(f)}

\* The 1-based rank of a recognized file in the lexicographic order.
Rank(f) == Cardinality({g \in Recognized : str_lt(g, f)}) + 1

\* The calls that refresh the registry whatever their arguments are.
AlwaysRefreshing ==
    {"get_all_books", "get_book_by_id", "extract_pages_text", "get_book_info",
     "extract_table_of_contents", "list_books", "books://list", "books://info",
     "ping"}

\* The tools that check their arguments before they call pdf_tools.
ValidatingTools ==
    {"get_table_of_contents", "get_table_of_contents (first)", "extract_pages",
     "extract_pages (first)", "tool get_book_info"}

\* The call just made was sent back for a missing argument.
SentBack ==
    /\ ret.op \in ValidatingTools
    /\ \/ ret.book_id = <<>>
       \/ has_key(ret, "pages") /\ ret.pages = <<>>

\* The call just made ran _load_book_mappings to its end.
Refreshed == ret.op \in AlwaysRefreshing \/ (ret.op \in ValidatingTools /\ ~SentBack)

\* C3: after every completed registry refresh, whatever files were added and
\* removed before, the registry holds exactly the recognized (.pdf in any
\* letter case) filenames of the directory, the ID of each is its 1-based rank
\* in their lexicographic order (the IDs are "1".."N"), the two maps are
\* mutual inverses, and the next-id counter is N + 1; the IDs are a function
\* of the files, so refreshes over unchanged files assign identical IDs.
C3_RegistryAfterRefresh ==
    Refreshed =>
        /\ dict_keys(_filename_to_id) = Recognized
        /\ dict_keys(_id_to_filename) = {str(n) : n \in 1..Cardinality(Recognized)}
        /\ Len(_filename_to_id) = Cardinality(Recognized)
        /\ Len(_id_to_filename) = Cardinality(Recognized)
        /\ \A f \in Recognized :
              /\ dict_get(_filename_to_id, f) = str(Rank(f))
              /\ dict_get(_id_to_filename, dict_get(_filename_to_id, f)) = f
        /\ \A k \in dict_keys(_id_to_filename) :
              dict_get(_filename_to_id, dict_get(_id_to_filename, k)) = k
        /\ _next_id = Cardinality(Recognized) + 1

\* A refresh over an upper-case and a lower-case name: "B.PDF" ranks first.
C3_Witness ==
    /\ ret.op = "get_book_by_id"
    /\ files[Name_B_PDF] # Absent
    /\ files[Name_a_pdf] # Absent
    /\ dict_get(_filename_to_id, Name_B_PDF) = <<"1">>
    /\ dict_get(_id_to_filename, <<"2">>) = Name_a_pdf
    /\ _next_id = 3

\* C4: while one caller refreshes the registry, the registry another caller
\* reads is the complete one (the directory does not change, so the registry
\* before and after the refresh is the same), never an empty or half-filled
\* map, nor maps that disagree.
C4_NoPartialRegistryObserved ==
    \A t \in Threads :
        threads[t].pc \in {"line 103", "line 104", "line 105", "line 56", "line 116"} =>
            /\ _id_to_filename = _load_book_mappings(TRUE, files).id_to_filename
            /\ _filename_to_id = _load_book_mappings(TRUE, files).filename_to_id

(***************************************************************************)
(* Claims about get_book_by_id and get_all_books.                          *)
(***************************************************************************)
\* What get_book_by_id gives for an identifier on the directory as it is.
RecordOf(identifier) == get_book_by_id(identifier, dir_exists, files).result

\* The listing of the directory as it is.
Listed == get_all_books(dir_exists, files).result

IdNumber(book) == digits_value(book.id, 0)

\* The listed record of the document with the given ID.
ListedWithId(id) == Listed[CHOOSE i \in 1..Len(Listed) : Listed[i].id = id]

\* The call just made is get_book_by_id with a substring of the title of the
\* document whose ID is 2.
ResolvedSubstringOfTitle2 ==
    /\ ret.op = "get_book_by_id"
    /\ Cardinality(Recognized) >= 2
    /\ ret.book_id \in substrings(ListedWithId(<<"2">>).title)

\* C5: with at least two documents, get_book_by_id with "2", with the
\* filename of the document whose ID is 2 and with any substring of that
\* document's title return the same record, provided no document with a
\* smaller ID has a title containing the substring.
C5_SameRecordThreeWays ==
    (/\ ResolvedSubstringOfTitle2
     /\ ~str_in(ret.book_id, ListedWithId(<<"1">>).title))
    => /\ ret.result = RecordOf(<<"2">>)
       /\ RecordOf(ListedWithId(<<"2">>).filename) = RecordOf(<<"2">>)

\* C5 as the code has it: the substring must not itself be an ID or a
\* filename of the registry, and no title of a smaller ID may contain it in
\* any letter case.
C5_SameRecordThreeWaysAmended ==
    (/\ ResolvedSubstringOfTitle2
     /\ ret.book_id \notin dict_keys(_id_to_filename)
     /\ ret.book_id \notin dict_keys(_filename_to_id)
     /\ ~str_in(lower(ret.book_id), lower(ListedWithId(<<"1">>).title)))
    => /\ ret.result = RecordOf(<<"2">>)
       /\ RecordOf(ListedWithId(<<"2">>).filename) = RecordOf(<<"2">>)

\* "A1" is the title of the second document only, and resolves to it.
C5_Witness ==
    /\ ResolvedSubstringOfTitle2
    /\ files[Name_B_PDF] = Doc_untitled
    /\ files[Name_a_pdf] = Doc_A1
    /\ ret.book_id = <<"A", "1">>
    /\ ret.result # None
    /\ ret.result.id = <<"2">>

\* The listed documents whose title contains s, in any letter case.
TitleHits(s) == {i \in 1..Len(Listed) : str_in(lower(s), lower(Listed[i].title))}

\* C6: get_book_by_id refreshes the registry and resolves in strict priority
\* order: an exact ID, else an exact filename, else a case-insensitive
\* substring of a title, where the matching document with the smallest
\* numeric ID is returned; the result is None only if no tier matches.
C6_ResolutionPriority ==
    ret.op = "get_book_by_id" =>
        /\ dict_keys(_filename_to_id) = Recognized
        /\ IF \E f \in Recognized : str(Rank(f)) = ret.book_id
           THEN /\ ret.result # None
                /\ ret.result.id = ret.book_id
                /\ str(Rank(ret.result.filename)) = ret.book_id
           ELSE IF ret.book_id \in Recognized
           THEN /\ ret.result # None
                /\ ret.result.filename = ret.book_id
           ELSE IF TitleHits(ret.book_id) # {}
           THEN \E i \in TitleHits(ret.book_id) :
                    /\ ret.result = Listed[i]
                    /\ \A j \in TitleHits(ret.book_id) :
                          IdNumber(Listed[i]) <= IdNumber(Listed[j])
           ELSE ret.result = None

\* "a.pdf" is the title of document 1 and the filename of document 2: the
\* filename wins.
C6_Witness ==
    /\ ret.op = "get_book_by_id"
    /\ files[Name_B_PDF] = Doc_named_a_pdf
    /\ files[Name_a_pdf] = Doc_A1
    /\ ret.book_id = Name_a_pdf
    /\ ret.result # None
    /\ ret.result.id = <<"2">>

\* C7: whatever files were added and removed before, get_all_books and
\* list_books return exactly one record per recognized file now present, in
\* ascending-ID order, and an empty list (not a failure) when the directory
\* holds only other files.
C7_ListingIsCurrent ==
    ret.op \in {"get_all_books", "list_books"} =>
        /\ Len(ret.result) = Cardinality(Recognized)
        /\ {ret.result[i].filename : i \in 1..Len(ret.result)} = Recognized
        /\ \A i \in 1..(Len(ret.result) - 1) :
              IdNumber(ret.result[i]) < IdNumber(ret.result[i + 1])
        /\ Recognized = {} => ret.result = <<>>

\* A listing of a directory that holds a text file and an upper-case PDF name.
C7_Witness ==
    /\ ret.op = "list_books"
    /\ files[Name_C_txt] # Absent
    /\ files[Name_B_PDF] # Absent
    /\ Len(ret.result) = 1
    /\ ret.result[1].filename = Name_B_PDF

\* Reading the document fails somewhere in the metadata extraction.
FailsInMetadata(doc) == doc.fail_at \in {"open", "pages", "metadata", "author"}

\* C8: if reading a document fails at any point of the metadata extraction,
\* get_all_books still returns a record for it, with the filename stem as
\* title, an error and no page count, and the records of the other documents
\* are what they would be had that document parsed.
C8_FailedDocumentRecord ==
    ret.op = "get_all_books" =>
        \A i \in 1..Len(ret.result) :
            FailsInMetadata(files[ret.result[i].filename]) =>
                /\ ret.result[i].title = splitext_root(ret.result[i].filename)
                /\ has_key(ret.result[i], "error")
                /\ ret.result[i].error # <<>>
                /\ ~has_key(ret.result[i], "pages")
                /\ \A j \in 1..Len(ret.result) :
                      j # i =>
                          ret.result[j] =
                              get_all_books(dir_exists,
                                  [files EXCEPT ![ret.result[i].filename] = Doc_A1]).result[j]

(***************************************************************************)
(* Claims about the error results.                                         *)
(***************************************************************************)
\* The identifier matches no ID, no filename and no title.
MatchesNothing(s) ==
    /\ s \notin {str(n) : n \in 1..Cardinality(Recognized)}
    /\ s \notin Recognized
    /\ TitleHits(s) = {}

\* The calls of extract_pages, get_book_info and get_table_of_contents.
LookupOps ==
    {"extract_pages", "extract_pages (first)", "extract_pages_text",
     "get_book_info", "tool get_book_info", "books://info",
     "get_table_of_contents", "get_table_of_contents (first)"}

\* The result is the error text alone, without page data.
IsErrorResult(result, text) ==
    /\ has_key(result, "error")
    /\ result.error = text
    /\ has_key(result, "pages") => result.pages = <<>>

\* The result of the call just made is "Book not found: <identifier>".
NotFoundReturned ==
    IF ret.op = "get_table_of_contents (first)"
    THEN ret.result = <<[error |-> <<"Book not found: ">> \o ret.book_id]>>
    ELSE IsErrorResult(ret.result, <<"Book not found: ">> \o ret.book_id)

Requested(doc) == parse_page_ranges(ret.pages, doc.npages)

PageFails(doc, p) == p = doc.bad_page \/ p > doc.npages

FirstFailure(doc) ==
    CHOOSE k \in 1..Len(Requested(doc)) :
        /\ PageFails(doc, Requested(doc)[k])
        /\ \A i \in 1..(k - 1) : ~PageFails(doc, Requested(doc)[i])

\* Opening the resolved document or extracting a requested page fails.
ExtractionFails(doc) ==
    \/ doc.fail_at \in {"open", "pages"}
    \/ \E k \in 1..Len(Requested(doc)) : PageFails(doc, Requested(doc)[k])

\* The pages extracted before the failure.
PagesBeforeFailure(doc) ==
    IF doc.fail_at \in {"open", "pages"} THEN <<>>
    ELSE [i \in 1..(FirstFailure(doc) - 1) |->
             [page_number |-> Requested(doc)[i], text |-> doc.text[Requested(doc)[i]]]]

\* C10: if opening the resolved document or extracting the text of a
\* requested page fails, extract_pages_text extracts none of the remaining
\* pages and returns a result with one error and the book_id and book_title
\* of the resolved document.
C10_ExtractionAborts ==
    (/\ ret.op = "extract_pages_text"
     /\ RecordOf(ret.book_id) # None
     /\ ExtractionFails(files[RecordOf(ret.book_id).filename]))
    => /\ has_key(ret.result, "error")
       /\ Head(ret.result.error) = "Error extracting pages: "
       /\ ret.result.book_id = RecordOf(ret.book_id).id
       /\ ret.result.book_title = RecordOf(ret.book_id).title
       /\ ret.result.pages = PagesBeforeFailure(files[RecordOf(ret.book_id).filename])
       /\ DOMAIN ret.result = {"book_id", "book_title", "pages", "error"}

\* Pages 1-3 of a document whose third page does not extract: two pages and
\* the error.
C10_Witness ==
    /\ ret.op = "extract_pages_text"
    /\ files[Name_a_pdf] = Doc_untitled
    /\ ret.book_id = <<"1">>
    /\ ret.pages = <<"1", "-", "3">>
    /\ Len(ret.result.pages) = 2
    /\ has_key(ret.result, "error")

(***************************************************************************)
(* Claims about extract_table_of_contents.                                 *)
(***************************************************************************)
\* The call just made is extract_table_of_contents and resolved a document.
TocOfResolved ==
    /\ ret.op = "extract_table_of_contents"
    /\ RecordOf(ret.book_id) # None

\* The document the call just made resolved.
TocDocument == files[RecordOf(ret.book_id).filename]

\* What the embedded-outline step produces: the entries of the walk, or the
\* single error marker of a walk that failed.
OutlineStep(doc) ==
    IF doc.outline = <<>> THEN <<>>
    ELSE toc_of_walk(process_outline_item([kind |-> "list", items |-> doc.outline],
                                          0, doc.npages))

HasNonErrorEntry(toc) == \E i \in 1..Len(toc) : ~has_key(toc[i], "error")

\* What the heuristic heading scan produces.
HeuristicStep(doc) == scan_pages(doc, 1, Min(ScanLimit, doc.npages), <<>>)

\* The result is the list of headings the scan found.
ResultIsHeadings(doc) ==
    /\ ~HeuristicStep(doc).raised
    /\ HeuristicStep(doc).entries # <<>>
    /\ ret.result = HeuristicStep(doc).entries

\* The result is the synthetic fallback.
ResultIsSynthetic ==
    /\ ret.result # <<>>
    /\ has_key(ret.result[1], "title")
    /\ ret.result[1].title = <<"Document Start">>

\* C11: the three derivation tiers of extract_table_of_contents are used in
\* strict priority: whenever the embedded outline yields at least one
\* non-error entry the result is exactly the outline entries; the result is
\* that of the heading scan only if the outline step gave nothing or a lone
\* error marker; the synthetic fallback is returned only if, besides, the
\* heading scan found nothing.
C11_TocTierPriority ==
    (TocOfResolved /\ TocDocument.fail_at # "open") =>
        /\ HasNonErrorEntry(OutlineStep(TocDocument)) =>
              ret.result = OutlineStep(TocDocument)
        /\ ResultIsHeadings(TocDocument) =>
              ~HasNonErrorEntry(OutlineStep(TocDocument))
        /\ ResultIsSynthetic =>
              /\ ~HasNonErrorEntry(OutlineStep(TocDocument))
              /\ ~HeuristicStep(TocDocument).raised
              /\ HeuristicStep(TocDocument).entries = <<>>

\* A document with an outline and a heading on page 2: the outline is returned.
C11_Witness ==
    /\ TocOfResolved
    /\ TocDocument = Doc_A1
    /\ HeuristicStep(Doc_A1).entries # <<>>
    /\ Len(ret.result) = 3
    /\ ret.result[1].title = <<"One">>

(***************************************************************************)
(* Long documents: one file a.pdf of up to MaxDocPages pages, without      *)
(* outline, every page holding the same text without headings.             *)
(***************************************************************************)
MaxDocPages == 60

\* The text of a page without headings: nothing, or a lower-case line.
PlainTexts == {<<>>, <<"a", "b">>}

PlainDocument(npages, text) ==
    [fail_at |-> "none", npages |-> npages, title |-> <<>>, author |-> <<>>,
     bad_page |-> 0, size |-> 100 * npages,
     text |-> [i \in 1..npages |-> text], outline |-> <<>>]

TocInit ==
    /\ page_range_str = <<>>
    /\ max_pages = 0
    /\ page_numbers = <<>>
    /\ parse_pc = "unused"
    /\ dir_exists = TRUE
    /\ \E npages \in 0..MaxDocPages : \E text \in PlainTexts :
          files = [f \in Filenames |->
                      IF f = Name_a_pdf THEN PlainDocument(npages, text) ELSE Absent]
    /\ _id_to_filename = <<>>
    /\ _filename_to_id = <<>>
    /\ _next_id = 1
    /\ ret = Idle
    /\ threads = [t \in Threads |-> IdleThread]

TocNext ==
    \/ CallExtractTableOfContents
    \/ Return

SpecToc == TocInit /\ [][TocNext]_vars

\* The document resolved has no outline and no detectable heading.
NoOutlineNoHeadings(doc) ==
    /\ doc.fail_at = "none"
    /\ doc.outline = <<>>
    /\ ~HeuristicStep(doc).raised
    /\ HeuristicStep(doc).entries = <<>>

\* max(10, page_count // 5)
MarkerInterval(page_count) ==
    IF page_count \div 5 > 10 THEN page_count \div 5 ELSE 10

\* The k for which page k * interval + 1 is in the document.
MarkerIndices(page_count) ==
    {k \in 1..page_count : k * MarkerInterval(page_count) + 1 <= page_count}

\* toc is 'Document Start' at page 1, followed for a document of more than
\* 10 pages by one level-0 marker at each page k * interval + 1, ascending.
IsSyntheticToc(toc, page_count) ==
    LET ks == IF page_count > 10 THEN MarkerIndices(page_count) ELSE {}
    IN  /\ Len(toc) = 1 + Cardinality(ks)
        /\ toc[1] = [title |-> <<"Document Start">>, page |-> 1, level |-> 0]
        /\ \A k \in ks :
              /\ has_key(toc[k + 1], "page")
              /\ toc[k + 1].page = k * MarkerInterval(page_count) + 1
              /\ toc[k + 1].level = 0

\* C12: for a document of page_count pages with no outline and no detectable
\* headings, extract_table_of_contents returns 'Document Start' at page 1
\* level 0 and, if page_count > 10, one level-0 marker at each page
\* k * interval + 1 <= page_count (k = 1, 2, ...) with
\* interval = max(10, page_count // 5), in ascending page order; for
\* page_count <= 10 the single 'Document Start' entry.
C12_SyntheticToc ==
    (TocOfResolved /\ NoOutlineNoHeadings(TocDocument)) =>
        IsSyntheticToc(ret.result, TocDocument.npages)

\* The same, for an installed pypdf whose readers have no attribute 'outlines'.
C12_SyntheticTocOutlinesAbsent ==
    (TocOfResolved /\ NoOutlineNoHeadings(TocDocument)
        /\ ret.pypdf_outlines = "absent") =>
        IsSyntheticToc(ret.result, TocDocument.npages)

\* A document of 23 pages gets the entries of pages 1, 11 and 21.
C12_Pages_1_11_21 ==
    /\ TocOfResolved
    /\ TocDocument.npages = 23
    /\ Len(ret.result) = 3
    /\ ret.result[2].page = 11
    /\ ret.result[3].page = 21

\* PdfReader(path) raises.
OpenFails(doc) == doc.fail_at = "open"

\* An exception leaves process_outline_item (handler of lines 250-251).
WalkFails(doc) ==
    /\ ~OpenFails(doc)
    /\ doc.outline # <<>>
    /\ process_outline_item([kind |-> "list", items |-> doc.outline], 0, doc.npages).raised

\* Reading reader.outlines raises: the outline is empty and the installed
\* pypdf deprecated the attribute.
OutlinesAttrFails(doc) ==
    /\ ~OpenFails(doc)
    /\ doc.outline = <<>>
    /\ ret.pypdf_outlines = "raises"

\* The heuristic scan is reached and a page in it does not extract.
ScanFails(doc) ==
    /\ ~OpenFails(doc)
    /\ ~OutlinesAttrFails(doc)
    /\ ~HasNonErrorEntry(OutlineStep(doc))
    /\ HeuristicStep(doc).raised

\* A sequence of a single entry that carries only an error field.
IsSingleError(toc) == Len(toc) = 1 /\ DOMAIN toc[1] = {"error"}

\* C13: any failure caught during the table-of-contents derivation of a
\* resolved document (opening the document, walking the outline, or
\* extracting page text in the heuristic scan) makes
\* extract_table_of_contents return a single entry that carries only an
\* error field, and never propagates as an exception.
C13_FailureGivesSingleError ==
    (TocOfResolved
        /\ (OpenFails(TocDocument) \/ WalkFails(TocDocument) \/ ScanFails(TocDocument))) =>
        IsSingleError(ret.result)

\* C13, amended: a failure opening the document, reading reader.outlines or
\* extracting page text in the heuristic scan gives a single entry carrying
\* only an error field; a failure walking the outline gives way to the
\* heuristic scan, whose headings, or else the synthetic entries, are
\* returned; a value is returned in every case.
C13_FailureOutcomes ==
    TocOfResolved =>
        /\ (OpenFails(TocDocument) \/ OutlinesAttrFails(TocDocument)
                \/ ScanFails(TocDocument)) =>
              IsSingleError(ret.result)
        /\ (WalkFails(TocDocument) /\ ~ScanFails(TocDocument)) =>
              /\ ~IsSingleError(ret.result)
              /\ IF HeuristicStep(TocDocument).entries # <<>>
                 THEN ret.result = HeuristicStep(TocDocument).entries
                 ELSE IsSyntheticToc(ret.result, TocDocument.npages)
        /\ has_key(ret, "result")

\* The outline walk of a document fails and the heading of its page 1 is
\* returned.
C13_Witness ==
    /\ TocOfResolved
    /\ WalkFails(TocDocument)
    /\ ret.result = <<[title |-> <<"A", "B", " ", "1">>, page |-> 1, level |-> 0]>>

\* The scan of a document without outline fails at its page 3.
C13_ScanFailureWitness ==
    /\ TocOfResolved
    /\ ScanFails(TocDocument)
    /\ TocDocument.bad_page = 3
    /\ IsSingleError(ret.result)

(***************************************************************************)
(* Claims about what the server's tools and resources return.              *)
(***************************************************************************)
\* A text names the document directory (every absolute path of a document
\* starts with it).
TextExposesPath(text) == \E i \in 1..Len(text) : text[i] = BOOKS_DIR

\* A dict has a 'path' entry, or one of its texts names the directory.
DictExposesPath(d, text_fields) ==
    \/ has_key(d, "path")
    \/ \E k \in text_fields \cap DOMAIN d : TextExposesPath(d[k])

ListExposesPath(list, text_fields) ==
    \E i \in 1..Len(list) : DictExposesPath(list[i], text_fields)

BookTextFields == {"id", "filename", "title", "author", "error"}

ReplyTextFields == {"error", "book_id", "book_title", "filename"}

EntryTextFields == {"title", "error", "text"}

\* The first get_table_of_contents answers a missing or unknown identifier
\* with a list.
RepliedWithList ==
    /\ ret.op = "get_table_of_contents (first)"
    /\ (ret.book_id = <<>> \/ RecordOf(ret.book_id) = None)

\* The value the tool or resource just called returned holds the directory
\* path or a document's absolute path.
ResultExposesPath ==
    IF ret.op \in {"list_books", "books://list"} \/ RepliedWithList
    THEN ListExposesPath(ret.result, BookTextFields)
    ELSE IF ret.op \in {"tool get_book_info", "books://info"}
    THEN DictExposesPath(ret.result, BookTextFields)
    ELSE IF ret.op \in {"get_table_of_contents", "get_table_of_contents (first)"}
    THEN \/ DictExposesPath(ret.result, ReplyTextFields)
         \/ has_key(ret.result, "toc") /\ ListExposesPath(ret.result.toc, EntryTextFields)
    ELSE IF ret.op \in {"extract_pages", "extract_pages (first)"}
    THEN \/ DictExposesPath(ret.result, ReplyTextFields)
         \/ has_key(ret.result, "pages")
               /\ ListExposesPath(ret.result.pages, EntryTextFields)
    ELSE DictExposesPath(ret.result, {"status", "books_dir"})

ServerOps ==
    {"list_books", "books://list", "get_table_of_contents",
     "get_table_of_contents (first)", "extract_pages", "extract_pages (first)",
     "tool get_book_info", "books://info", "ping"}

\* C14: no result returned by a tool or resource of the server (list_books,
\* get_table_of_contents, extract_pages, get_book_info, the books://
\* resources, ping) contains the document directory path or a document's
\* absolute path, whatever the directory holds and whatever the identifier,
\* also when the underlying operation fails.
C14_NoPathInResults == ret.op \in ServerOps => ~ResultExposesPath

\* The same for every tool and resource but ping.
C14_NoPathInResultsButPing == ret.op \in ServerOps \ {"ping"} => ~ResultExposesPath

(***************************************************************************)
(* The handlers get_table_of_contents and extract_pages of the server      *)
(* (src/server.py:176-246) in two steps: the handler resolves the          *)
(* identifier itself (lines 195, 232), then calls pdf_tools, which         *)
(* resolves it again (src/pdf_tools.py:149, 308).  Files can be put into   *)
(* and removed from the directory between the two.                         *)
(***************************************************************************)
HandlerIds == {<<"1">>, <<"2">>, Name_a_pdf, <<"z", "z">>}

HandlerPageSpecs == {<<"2">>, <<"1", "-", "3">>}

\* The calls with the arguments the handlers accept (lines 190-192, 225-229).
HandlerCalls ==
    {[op |-> "get_table_of_contents", book_id |-> book_id, pypdf_outlines |-> a] :
        book_id \in HandlerIds, a \in PypdfOutlines}
    \cup {[op |-> "extract_pages", book_id |-> book_id, pages |-> pages] :
             book_id \in HandlerIds, pages \in HandlerPageSpecs}

\* The handler holds the book it resolved and has not called pdf_tools yet.
BetweenResolutions == has_key(ret, "book")

\* lines 195-197 and 232-234: the book found is kept, an unknown identifier
\* is answered at once.
HandlerFound(found, call) ==
    /\ SetGlobals(found.mappings)
    /\ ret' = IF found.result = None
              THEN set_item(call, "result", [error |-> fmt("Book not found: ", call.book_id)])
              ELSE set_item(call, "book", found.result)

HandlerResolves ==
    /\ ret = Idle
    /\ \E call \in HandlerCalls :
          HandlerFound(get_book_by_id(call.book_id, dir_exists, files), call)
    /\ UNCHANGED <<parse_vars, threads, files>>

\* A file is put into the directory while the handler runs.
FileAddedMeanwhile ==
    /\ BetweenResolutions
    /\ Cardinality(listdir(files)) < MaxFiles
    /\ \E f \in Filenames : \E d \in DocumentsFor(f) :
          /\ files[f] = Absent
          /\ files' = [files EXCEPT ![f] = d]
    /\ UNCHANGED <<parse_vars, threads, dir_exists, registry_vars, ret>>

\* A file is removed from the directory while the handler runs.
FileRemovedMeanwhile ==
    /\ BetweenResolutions
    /\ \E f \in Filenames :
          /\ files[f] # Absent
          /\ files' = [files EXCEPT ![f] = Absent]
    /\ UNCHANGED <<parse_vars, threads, dir_exists, registry_vars, ret>>

\* lines 199-205 and 236-243: pdf_tools resolves the identifier again and
\* the handler adds the fields of the book it resolved itself.
HandlerReply(call, book) ==
    IF call.op = "get_table_of_contents"
    THEN toc_reply(book, extract_table_of_contents(call.book_id, dir_exists, files,
                                                   call.pypdf_outlines))
    ELSE pages_reply(book, extract_pages_text(call.book_id, call.pages, dir_exists, files))

HandlerReplies ==
    /\ BetweenResolutions
    /\ ToolReturned(HandlerReply(ret, ret.book), del_item(ret, "book"))
    /\ UNCHANGED <<parse_vars, threads, files>>

HandlerNext ==
    \/ AddFile \/ RemoveFile \/ Return
    \/ HandlerResolves \/ FileAddedMeanwhile \/ FileRemovedMeanwhile
    \/ HandlerReplies

SpecHandlers == LibInit /\ [][HandlerNext]_vars

\* The handler just called answered with the fields of a book.
RepliedForBook ==
    /\ ret.op \in {"get_table_of_contents", "extract_pages"}
    /\ has_key(ret, "result")
    /\ has_key(ret.result, "filename")

\* The table of contents returned is that of the document in the file.
TocIsOf(reply, doc, outlines_attr) == reply.toc = derive_toc(doc, outlines_attr)

\* The pages (and the error, if any) returned are those of the document in
\* the file.
PagesAreOf(reply, own) ==
    /\ reply.pages = own.pages
    /\ has_key(reply, "error") = has_key(own, "error")
    /\ has_key(own, "error") => reply.error = own.error

\* C15: in the server's get_table_of_contents and extract_pages, the
\* identity fields of the result (book_id, book_title, filename) and the
\* content (toc or pages) describe the same document, even if files are
\* added to or removed from the directory between the handler's own
\* resolution of the identifier and the second resolution performed inside
\* extract_table_of_contents / extract_pages_text.
C15_IdentityMatchesContent ==
    RepliedForBook =>
        /\ files[ret.result.filename] # Absent
        /\ ret.result.book_title = RecordOf(ret.result.filename).title
        /\ IF ret.op = "get_table_of_contents"
           THEN TocIsOf(ret.result, files[ret.result.filename], ret.pypdf_outlines)
           ELSE PagesAreOf(ret.result,
                           extract_body([pages |-> <<>>], files[ret.result.filename],
                                        ret.pages))

=============================================================================
